---- MODULE Spec2Model ----
(***************************************************************************)
(* Model of the social controller (src/src/controllers/social.ts): the     *)
(* paginated feed query, the explore query and the read-modify-write       *)
(* mutations of posts (like, comment, edit) and users (connections).       *)
(*                                                                         *)
(* Every handler is cut at its awaits: one step per database call.  The    *)
(* store (posts, users) is the only shared state; what a handler holds     *)
(* between two awaits (the document it found) lives in its request record. *)
(***************************************************************************)
EXTENDS Integers, Sequences, FiniteSets, TLC

VARIABLES posts, users, reqs, last, resp, created

vars == <<posts, users, reqs, last, resp, created>>

\* ------------------------------------------------------------------ bounds

\* Requests one run handles (each is a find step and an update step).
NReq == 2
\* Longest likes sequence a post starts with.
MaxLikes == 3
\* Longest connections sequence a user starts with.
MaxConn == 2
\* Most posts the store of the feed specification starts with.
MaxPosts == 11
\* Most posts created by postContent in one run.
MaxNew == 1
\* Largest start (page index) and limit (page size) of a feed request.
MaxStart == 2
MaxLimit == 3

\* --------------------------------------------------------------- constants

\* $limit: Number(searchQuery.limit) || 10
DefaultLimit == 10
\* .limit(10) of the explore query
ExploreLimit == 10

\* ------------------------------------------------------------------ values

\* Ids a request can name.  Users u1, u2 and posts 1, 2 exist in the stores
\* of the mutation specifications; u3 and post 3 never do.
UserIds == {"u1", "u2", "u3"}
PostIdArgs == {1, 2, 3}

\* What findById resolves to: null, or the document.
None == <<>>
Some(x) == <<x>>

\* Strings are sequences of characters.
TagA == <<"a">>
TagB == <<"b">>
TagAB == <<"a", ",", "b">>
TagATrail == <<"a", ",">>
Comma == ","

SeqsUpTo(S, n) == UNION {[1..k -> S] : k \in 0..n}

\* --------------------------------------------------- String.prototype.split

\* The prefix of s before its first separator (all of s when it has none).
RECURSIVE UpToSep(_, _)
UpToSep(s, sep) ==
    IF s = <<>> \/ Head(s) = sep THEN <<>>
    ELSE <<Head(s)>> \o UpToSep(Tail(s), sep)

\* tags.split(','): the pieces between the separators; "" gives [""].
RECURSIVE Split(_, _)
Split(s, sep) ==
    LET first == UpToSep(s, sep)
    IN  IF Len(first) = Len(s) THEN <<first>>
        ELSE <<first>> \o Split(SubSeq(s, Len(first) + 2, Len(s)), sep)

\* ---------------------------------------------------------------- likePost

\* post.likes.includes(userId)
Includes(s, x) == \E i \in DOMAIN s : s[i] = x

\* updatedLikes = []; post.likes.forEach(id => { if (id !== userId) push })
RECURSIVE WithoutUser(_, _)
WithoutUser(likes, userId) ==
    IF likes = <<>> THEN <<>>
    ELSE IF Head(likes) # userId
         THEN <<Head(likes)>> \o WithoutUser(Tail(likes), userId)
         ELSE WithoutUser(Tail(likes), userId)

\* A toggle that drops only the first occurrence of the user.
RECURSIVE WithoutFirst(_, _)
WithoutFirst(likes, userId) ==
    IF likes = <<>> THEN <<>>
    ELSE IF Head(likes) # userId
         THEN <<Head(likes)>> \o WithoutFirst(Tail(likes), userId)
         ELSE Tail(likes)

\* A toggle that puts the user in front.
ToggledFront(likes, userId) ==
    IF Includes(likes, userId) THEN WithoutUser(likes, userId)
    ELSE <<userId>> \o likes

\* A like that never toggles: the user is appended whatever the likes hold.
LikedAgain(likes, userId) == Append(likes, userId)

\* A toggle that drops the first occurrence only.
ToggledFirst(likes, userId) ==
    IF Includes(likes, userId) THEN WithoutFirst(likes, userId)
    ELSE Append(likes, userId)

\* The likes likePost writes, from the likes of the document it found.
UpdatedLikes(likes, userId) ==
    IF Includes(likes, userId) THEN WithoutUser(likes, userId)
    ELSE Append(likes, userId)

\* ------------------------------------------------------------------ stores

\* A post document (its _id is its key in posts).
NewPost(userId, textContent, imageContent, tags, likes, comments, createdAt) ==
    [userId |-> userId, textContent |-> textContent, imageContent |-> imageContent,
     tags |-> tags, likes |-> likes, comments |-> comments, createdAt |-> createdAt]

\* A user document, as far as the controller reads it.
NewUser(connections) == [connections |-> connections]

\* Post.findById(postId) / User.findById(userId): null when nothing has the id.
FindPostById(postId) ==
    IF postId \in DOMAIN posts THEN Some(posts[postId]) ELSE None

FindUserById(userId) ==
    IF userId \in DOMAIN users THEN Some(users[userId]) ELSE None

\* ---------------------------------------------------------------- requests

\* A request in flight: its parameters and body, the document its findById
\* resolved to (the locals a handler keeps across its awaits), and its
\* response.  The last four fields are history: the request that had just
\* ended when this one started (0: none, or a request was still in flight),
\* whether no other request took a step between its find and its update,
\* and the stores right before and right after its last step.
NewReq(op, postId, userId, otherUserId, body, doc) ==
    [op |-> op, postId |-> postId, userId |-> userId, otherUserId |-> otherUserId,
     body |-> body, doc |-> doc, pc |-> "found", status |-> 0, message |-> "",
     prev |-> IF last # 0 /\ reqs[last].pc = "done" THEN last ELSE 0,
     solo |-> FALSE,
     before |-> [posts |-> posts, users |-> users],
     after |-> [posts |-> posts, users |-> users]]

NoBody == [textContent |-> "", imageContent |-> "", tags |-> <<>>, comment |-> ""]

\* The request arrives and its handler runs up to its first await.
Arrive(req) ==
    /\ Len(reqs) < NReq
    /\ reqs' = Append(reqs, req)
    /\ last' = Len(reqs) + 1
    /\ UNCHANGED <<posts, users, resp, created>>

\* The handler's continuation after findById: the update it issues (newPosts,
\* newUsers) and the response it ends with.
Finish(r, status, message, newPosts, newUsers) ==
    /\ posts' = newPosts
    /\ users' = newUsers
    /\ reqs' = [reqs EXCEPT ![r] = [@ EXCEPT !.pc = "done", !.status = status,
                                             !.message = message,
                                             !.solo = (last = r),
                                             !.before = [posts |-> posts, users |-> users],
                                             !.after = [posts |-> newPosts, users |-> newUsers]]]
    /\ last' = r
    /\ UNCHANGED <<resp, created>>

Pending(r, op) ==
    /\ r \in DOMAIN reqs
    /\ reqs[r].op = op
    /\ reqs[r].pc = "found"

\* The error raised with the status of a failed update.
NotFoundAs500(r, message) == Finish(r, 500, message, posts, users)

\* res.status(statusCode); throw new Error(errorMessage) with the handler's
\* initial statusCode = 404: no update is issued.
NotFound(r, message) == Finish(r, 404, message, posts, users)

\* ---------------------------------------------------------------- likePost

\* const post = await Post.findById(postId)
LikePostFind(postId, userId) ==
    Arrive(NewReq("like", postId, userId, "", NoBody, FindPostById(postId)))

\* if (post) { ...; await post.updateOne({ likes: updatedLikes }); res.json }
LikePostUpdate(r) ==
    /\ Pending(r, "like")
    /\ reqs[r].doc # None
    /\ Finish(r, 200, "Post Liked",
              [posts EXCEPT ![reqs[r].postId].likes =
                                UpdatedLikes(reqs[r].doc[1].likes, reqs[r].userId)],
              users)

\* post is null: 404 'Post not found'
LikePostNotFound(r) ==
    /\ Pending(r, "like")
    /\ reqs[r].doc = None
    /\ NotFound(r, "Post not found")

\* ------------------------------------------------------------- commentPost

\* const post = await Post.findById(postId)
CommentPostFind(postId, userId, comment) ==
    Arrive(NewReq("comment", postId, userId, "", [NoBody EXCEPT !.comment = comment],
                  FindPostById(postId)))

\* A comment appended to the stored comments at the time of the write (what
\* an atomic $push would do).
CommentPostPush(r) ==
    /\ Pending(r, "comment")
    /\ reqs[r].doc # None
    /\ Finish(r, 200, "Commented on post",
              [posts EXCEPT ![reqs[r].postId].comments =
                  Append(@, [userId |-> reqs[r].userId, comment |-> reqs[r].body.comment])],
              users)

\* await post.updateOne({ comments: [...post.comments, { userId, comment }] })
CommentPostUpdate(r) ==
    /\ Pending(r, "comment")
    /\ reqs[r].doc # None
    /\ Finish(r, 200, "Commented on post",
              [posts EXCEPT ![reqs[r].postId].comments =
                  Append(reqs[r].doc[1].comments,
                         [userId |-> reqs[r].userId, comment |-> reqs[r].body.comment])],
              users)

\* post is null: 404 'Post not found'
CommentPostNotFound(r) ==
    /\ Pending(r, "comment")
    /\ reqs[r].doc = None
    /\ NotFound(r, "Post not found")

\* ---------------------------------------------------------------- editPost

\* const post = await Post.findById(postId)
EditPostFind(postId, textContent, imageContent, tags) ==
    Arrive(NewReq("edit", postId, "", "",
                  [NoBody EXCEPT !.textContent = textContent,
                                 !.imageContent = imageContent, !.tags = tags],
                  FindPostById(postId)))

\* An edit that writes the whole document it found back (what post.save()
\* of the edited snapshot would do).
EditPostSave(r) ==
    /\ Pending(r, "edit")
    /\ reqs[r].doc # None
    /\ Finish(r, 200, "Post edited",
              [posts EXCEPT ![reqs[r].postId] =
                  [reqs[r].doc[1] EXCEPT !.textContent = reqs[r].body.textContent,
                                         !.imageContent = reqs[r].body.imageContent,
                                         !.tags = Split(reqs[r].body.tags, Comma)]],
              users)

\* await post.updateOne({ textContent, imageContent, tags: tags.split(',') })
EditPostUpdate(r) ==
    /\ Pending(r, "edit")
    /\ reqs[r].doc # None
    /\ Finish(r, 200, "Post edited",
              [posts EXCEPT ![reqs[r].postId] =
                  [@ EXCEPT !.textContent = reqs[r].body.textContent,
                            !.imageContent = reqs[r].body.imageContent,
                            !.tags = Split(reqs[r].body.tags, Comma)]],
              users)

\* post is null: 404 'Post not found'
EditPostNotFound(r) ==
    /\ Pending(r, "edit")
    /\ reqs[r].doc = None
    /\ NotFound(r, "Post not found")

\* ------------------------------------------------ addUserSocialConnections

\* const user = await User.findById(userId)
AddConnectionFind(userId, otherUserId) ==
    Arrive(NewReq("add", 0, userId, otherUserId, NoBody, FindUserById(userId)))

\* The connections the add handler writes.
AddedConnections(connections, otherUserId) == Append(connections, otherUserId)

\* await user.updateOne({ connections: [...user.connections, otherUserId] })
AddConnectionUpdate(r) ==
    /\ Pending(r, "add")
    /\ reqs[r].doc # None
    /\ Finish(r, 200, "User added to your connections list",
              posts,
              [users EXCEPT ![reqs[r].userId].connections =
                  AddedConnections(reqs[r].doc[1].connections, reqs[r].otherUserId)])

\* user is null: 404 'User not found'
AddConnectionNotFound(r) ==
    /\ Pending(r, "add")
    /\ reqs[r].doc = None
    /\ NotFound(r, "User not found")

\* --------------------------------------------- removeUserSocialConnections

\* const user = await User.findById(userId)
RemoveConnectionFind(userId, otherUserId) ==
    Arrive(NewReq("remove", 0, userId, otherUserId, NoBody, FindUserById(userId)))

\* A filter with the comparison inverted: only the target id is kept.
OnlyConnection(connections, otherUserId) ==
    SelectSeq(connections, LAMBDA id : id = otherUserId)

\* user.connections.filter((id) => id !== otherUserId)
RECURSIVE UpdatedConnections(_, _)
UpdatedConnections(connections, otherUserId) ==
    IF connections = <<>> THEN <<>>
    ELSE IF Head(connections) # otherUserId
         THEN <<Head(connections)>> \o UpdatedConnections(Tail(connections), otherUserId)
         ELSE UpdatedConnections(Tail(connections), otherUserId)

\* await user.updateOne({ connections: updatedConnections })
RemoveConnectionUpdate(r) ==
    /\ Pending(r, "remove")
    /\ reqs[r].doc # None
    /\ Finish(r, 200, "User removed from your connections list",
              posts,
              [users EXCEPT ![reqs[r].userId].connections =
                  UpdatedConnections(reqs[r].doc[1].connections, reqs[r].otherUserId)])

\* user is null: 404 'User not found'
RemoveConnectionNotFound(r) ==
    /\ Pending(r, "remove")
    /\ reqs[r].doc = None
    /\ NotFound(r, "User not found")

\* ------------------------------------------------------------- JS numbers

\* A JS number: NaN, or an integer.
NaN == [nan |-> TRUE, v |-> 0]
Num(n) == [nan |-> FALSE, v |-> n]

\* Number(x) of a query parameter: None is undefined (the parameter is
\* absent), Some(n) the decimal string of n.
ToNumber(param) == IF param = None THEN NaN ELSE Num(param[1])

\* a * b and a + b
Times(a, b) == IF a.nan \/ b.nan THEN NaN ELSE Num(a.v * b.v)
Plus(a, b) == IF a.nan \/ b.nan THEN NaN ELSE Num(a.v + b.v)

\* x || d : NaN and 0 are falsy
OrElse(x, d) == IF x.nan \/ x.v = 0 THEN d ELSE x.v

\* total > x : false when x is NaN
GreaterThan(total, x) == ~x.nan /\ total > x.v

\* ---------------------------------------------------------------- getPosts

Reverse(s) == [i \in 1..Len(s) |-> s[Len(s) + 1 - i]]

\* The ids of ids by createdAt ascending.
RECURSIVE SortedAscending(_)
SortedAscending(ids) ==
    IF ids = {} THEN <<>>
    ELSE LET first == CHOOSE p \in ids :
                         \A q \in ids : posts[p].createdAt <= posts[q].createdAt
         IN  <<first>> \o SortedAscending(ids \ {first})

\* A sort that ignores the direction.
AlwaysAscending(ids, direction) == SortedAscending(ids)

\* $sort: { createdAt: 1 | -1 }   and   .sort({ createdAt: -1 })
SortByCreatedAt(ids, direction) ==
    IF direction = 1 THEN SortedAscending(ids) ELSE Reverse(SortedAscending(ids))

\* $skip: n
Skip(s, n) == SubSeq(s, n + 1, Len(s))

\* $limit: n   and   .limit(n)
Limit(s, n) == SubSeq(s, 1, IF n < Len(s) THEN n ELSE Len(s))

\* $lookup the author, $unwind keeping the posts without one, $project
PostView(p) ==
    [_id |-> p, createdAt |-> posts[p].createdAt, tags |-> posts[p].tags,
     user |-> IF posts[p].userId \in DOMAIN users THEN Some(posts[p].userId) ELSE None]

\* total: [{ $group: { _id: null, count: { $sum: 1 } } }] : no group at all
\* for an empty collection
TotalFacet == IF DOMAIN posts = {} THEN <<>> ELSE <<[count |-> Cardinality(DOMAIN posts)]>>

\* The response of a handler that ends in one step.
Response(kind, data, hasNextPage, total) ==
    [kind |-> kind, data |-> data, hasNextPage |-> hasNextPage, total |-> total,
     query |-> <<>>]

\* The posts facet: $sort, $skip: Number(start * limit) || 0,
\* $limit: Number(limit) || 10
Page(start, limit, order) ==
    Limit(Skip(SortByCreatedAt(DOMAIN posts, IF order = "asc" THEN 1 ELSE -1),
               OrElse(Times(ToNumber(start), ToNumber(limit)), 0)),
          OrElse(ToNumber(limit), DefaultLimit))

\* hasNextPage = total > Number(start * limit) + Number(limit)
HasNextPage(total, start, limit) ==
    GreaterThan(total, Plus(Times(ToNumber(start), ToNumber(limit)), ToNumber(limit)))

GetPosts(start, limit, order) ==
    LET page == Page(start, limit, order)
        total == IF TotalFacet = <<>> THEN 0 ELSE OrElse(Num(TotalFacet[1].count), 0)
    IN  /\ resp' = Some([Response("posts", [i \in 1..Len(page) |-> PostView(page[i])],
                                  HasNextPage(total, start, limit), total)
                         EXCEPT !.query = [start |-> start, limit |-> limit, order |-> order]])
        /\ UNCHANGED <<posts, users, reqs, last, created>>

\* ------------------------------------------------------------- getPostData

\* A JS value of a route parameter: undefined, null or a string.
JsUndefined == [type |-> "undefined", s |-> <<>>]
JsNull == [type |-> "null", s |-> <<>>]
JsString(s) == [type |-> "string", s |-> s]

\* { tags: { $in: [postTag] } } on tags that are arrays of strings
TagsMatch(tags, postTag) ==
    postTag.type = "string" /\ \E i \in DOMAIN tags : tags[i] = postTag.s

\* The whole post documents, as find returns them.
PostDoc(p) ==
    [_id |-> p, createdAt |-> posts[p].createdAt, tags |-> posts[p].tags,
     userId |-> posts[p].userId]

\* if (postTag !== null) find({ tags: { $in: [postTag] } }) else find({}),
\* both .sort({ createdAt: -1 }).limit(10)
ExplorePosts(postTag) ==
    IF postTag # JsNull
    THEN Limit(SortByCreatedAt({p \in DOMAIN posts : TagsMatch(posts[p].tags, postTag)}, -1),
               ExploreLimit)
    ELSE Limit(SortByCreatedAt(DOMAIN posts, -1), ExploreLimit)

GetPostData(postTag) ==
    LET found == ExplorePosts(postTag)
    IN  /\ resp' = Some([Response("explore", [i \in 1..Len(found) |-> PostDoc(found[i])],
                                  FALSE, 0)
                         EXCEPT !.query = [postTag |-> postTag]])
        /\ UNCHANGED <<posts, users, reqs, last, created>>

\* ------------------------------------------------------------- postContent

Latest == IF DOMAIN posts = {} THEN 0
          ELSE CHOOSE t \in {posts[p].createdAt : p \in DOMAIN posts} :
                  \A q \in DOMAIN posts : posts[q].createdAt <= t

\* const post = await Post.create({ textContent, imageContent,
\*                                  tags: tags.split(','), userId })
PostContent(userId, textContent, imageContent, tags) ==
    LET id == Cardinality(DOMAIN posts) + 1
    IN  /\ created < MaxNew
        /\ posts' = posts @@
              (id :> NewPost(userId, textContent, imageContent, Split(tags, Comma),
                             <<>>, <<>>, Latest + 1))
        /\ created' = created + 1
        /\ resp' = Some([Response("created", <<[_id |-> id, createdAt |-> Latest + 1, tags |-> Split(tags, Comma), userId |-> userId]>>, FALSE, 0)
                         EXCEPT !.query = [tags |-> tags]])
        /\ UNCHANGED <<users, reqs, last>>

\* ----------------------------------------------------- initial states, specs

\* The two users and two posts of the mutation specifications.
BaseUsers == [u \in {"u1", "u2"} |-> NewUser(<<>>)]

BasePost(userId, likes, createdAt) ==
    NewPost(userId, "t0", "i0", <<TagA>>, likes, <<>>, createdAt)

InitRest ==
    /\ reqs = <<>>
    /\ last = 0
    /\ resp = None
    /\ created = 0

\* Like toggles on a store whose first post starts with any likes sequence
\* (duplicates included: the store does not deduplicate).
InitLike ==
    /\ \E likes \in SeqsUpTo(UserIds, MaxLikes) :
          posts = (1 :> BasePost("u1", likes, 1)) @@ (2 :> BasePost("u2", <<"u2">>, 2))
    /\ users = BaseUsers
    /\ InitRest

NextLike ==
    \/ \E postId \in PostIdArgs, userId \in {"u1", "u2"} : LikePostFind(postId, userId)
    \/ \E r \in 1..NReq : LikePostUpdate(r)
    \/ \E r \in 1..NReq : LikePostNotFound(r)

SpecLike == InitLike /\ [][NextLike]_vars

NoDuplicate(s) == \A i, j \in DOMAIN s : s[i] = s[j] => i = j

\* The same, from likes that hold no id twice.
InitLikeDistinct ==
    /\ InitLike
    /\ \A p \in DOMAIN posts : NoDuplicate(posts[p].likes)

SpecLikeDistinct == InitLikeDistinct /\ [][NextLike]_vars

\* Connection requests on a store whose first user starts with any
\* connections sequence.
InitConn ==
    /\ posts = (1 :> BasePost("u1", <<>>, 1))
    /\ \E connections \in SeqsUpTo(UserIds, MaxConn) :
          users = [BaseUsers EXCEPT !["u1"] = NewUser(connections)]
    /\ InitRest

NextConn ==
    \/ \E userId \in {"u1", "u3"}, otherUserId \in {"u1", "u2"} :
          AddConnectionFind(userId, otherUserId)
    \/ \E r \in 1..NReq : AddConnectionUpdate(r)
    \/ \E r \in 1..NReq : AddConnectionNotFound(r)
    \/ \E userId \in {"u1", "u3"}, otherUserId \in {"u1", "u2"} :
          RemoveConnectionFind(userId, otherUserId)
    \/ \E r \in 1..NReq : RemoveConnectionUpdate(r)
    \/ \E r \in 1..NReq : RemoveConnectionNotFound(r)

SpecConn == InitConn /\ [][NextConn]_vars

\* All the mutations, racing on one store.
Init ==
    /\ posts = (1 :> BasePost("u1", <<"u2">>, 1)) @@ (2 :> BasePost("u2", <<>>, 2))
    /\ users = [BaseUsers EXCEPT !["u1"] = NewUser(<<"u2">>)]
    /\ InitRest

Next ==
    \/ \E postId \in PostIdArgs, userId \in {"u1", "u2"} : LikePostFind(postId, userId)
    \/ \E r \in 1..NReq : LikePostUpdate(r)
    \/ \E r \in 1..NReq : LikePostNotFound(r)
    \/ \E postId \in PostIdArgs, userId \in {"u1", "u2"} :
          CommentPostFind(postId, userId, "c")
    \/ \E r \in 1..NReq : CommentPostUpdate(r)
    \/ \E r \in 1..NReq : CommentPostNotFound(r)
    \/ \E postId \in PostIdArgs, tags \in {TagB, TagAB, TagATrail} :
          EditPostFind(postId, "t1", "i1", tags)
    \/ \E r \in 1..NReq : EditPostUpdate(r)
    \/ \E r \in 1..NReq : EditPostNotFound(r)
    \/ \E userId \in {"u1", "u3"}, otherUserId \in {"u1", "u2"} :
          AddConnectionFind(userId, otherUserId)
    \/ \E r \in 1..NReq : AddConnectionUpdate(r)
    \/ \E r \in 1..NReq : AddConnectionNotFound(r)
    \/ \E userId \in {"u1", "u3"}, otherUserId \in {"u1", "u2"} :
          RemoveConnectionFind(userId, otherUserId)
    \/ \E r \in 1..NReq : RemoveConnectionUpdate(r)
    \/ \E r \in 1..NReq : RemoveConnectionNotFound(r)

Spec == Init /\ [][Next]_vars

\* The feed and explore queries on a store of any size up to MaxPosts: every
\* second post is tagged a and b, the others a; every third post has an
\* author who is no user; the posts were created in the order of their ids
\* or in the reverse order.
FeedPost(k, n, reversed) ==
    NewPost(IF k % 3 = 0 THEN "u3" ELSE "u1", "t0", "i0",
            IF k % 2 = 0 THEN Split(TagAB, Comma) ELSE Split(TagA, Comma),
            <<>>, <<>>, IF reversed THEN n + 1 - k ELSE k)

InitFeed ==
    /\ \E n \in 0..MaxPosts, reversed \in BOOLEAN :
          posts = [k \in 1..n |-> FeedPost(k, n, reversed)]
    /\ users = BaseUsers
    /\ InitRest

QueryNumbers(max) == {None} \cup {Some(n) : n \in 0..max}

NextFeed ==
    \/ \E start \in QueryNumbers(MaxStart), limit \in QueryNumbers(MaxLimit),
          order \in {"asc", "desc"} : GetPosts(start, limit, order)
    \/ \E postTag \in {JsUndefined, JsString(TagA), JsString(TagB), JsString(TagAB)} :
          GetPostData(postTag)
    \/ PostContent("u2", "t1", "i1", TagB)

SpecFeed == InitFeed /\ [][NextFeed]_vars

\* ============================================================== properties

Succeeded(r, op) ==
    /\ reqs[r].op = op
    /\ reqs[r].pc = "done"
    /\ reqs[r].status = 200

\* r2 ran right after r1, and neither had another request's step between its
\* find and its update.
Sequential(r1, r2) ==
    /\ reqs[r1].solo
    /\ reqs[r2].solo
    /\ reqs[r2].prev = r1

Count(s, x) == Cardinality({i \in DOMAIN s : s[i] = x})

Without(s, x) == SelectSeq(s, LAMBDA y : y # x)

LikesBefore(r) == reqs[r].before.posts[reqs[r].postId].likes
LikesAfter(r) == reqs[r].after.posts[reqs[r].postId].likes
ConnBefore(r) == reqs[r].before.users[reqs[r].userId].connections
ConnAfter(r) == reqs[r].after.users[reqs[r].userId].connections

\* C2: a likePost by user U on an existing post, with no other request
\* interleaved, removes every occurrence of U from the likes when U occurs
\* in them (the other ids keep their order), and otherwise appends U once at
\* the end of the unchanged likes.
C2_LikeToggles ==
    \A r \in DOMAIN reqs :
        (Succeeded(r, "like") /\ reqs[r].solo) =>
            IF Count(LikesBefore(r), reqs[r].userId) > 0
            THEN LikesAfter(r) = Without(LikesBefore(r), reqs[r].userId)
            ELSE LikesAfter(r) = LikesBefore(r) \o <<reqs[r].userId>>

\* A lone like by a user who occurred twice, among other ids, has run.
C2_Witness ==
    \E r \in DOMAIN reqs :
        /\ Succeeded(r, "like") /\ reqs[r].solo
        /\ Count(LikesBefore(r), reqs[r].userId) = 2
        /\ Len(LikesBefore(r)) = 3
        /\ Len(LikesAfter(r)) = 1

SameLike(r1, r2) ==
    /\ Succeeded(r1, "like") /\ Succeeded(r2, "like")
    /\ reqs[r1].postId = reqs[r2].postId
    /\ reqs[r1].userId = reqs[r2].userId

\* C3 as stated: two likePost requests by U on P, one after the other, leave
\* P.likes equal as a sequence to what it was before the first, whatever it
\* was.
C3_Original ==
    \A r1, r2 \in DOMAIN reqs :
        (SameLike(r1, r2) /\ Sequential(r1, r2)) => LikesAfter(r2) = LikesBefore(r1)

\* C3 amended: two likePost requests by U on P, one after the other, leave
\* P.likes as it was when U did not occur in it; when U occurred, they leave
\* the likes with every occurrence of U removed and U appended once at the end.
C3_LikeTwice ==
    \A r1, r2 \in DOMAIN reqs :
        (SameLike(r1, r2) /\ Sequential(r1, r2)) =>
            IF Count(LikesBefore(r1), reqs[r1].userId) = 0
            THEN LikesAfter(r2) = LikesBefore(r1)
            ELSE LikesAfter(r2) = Without(LikesBefore(r1), reqs[r1].userId) \o <<reqs[r1].userId>>

\* Two likes in a row by a user absent from the likes another user is in.
C3_Witness ==
    \E r1, r2 \in DOMAIN reqs :
        /\ SameLike(r1, r2) /\ Sequential(r1, r2)
        /\ Count(LikesBefore(r1), reqs[r1].userId) = 0
        /\ Len(LikesBefore(r1)) = 2
        /\ Len(LikesAfter(r1)) = 3
        /\ posts[reqs[r1].postId].likes = LikesBefore(r1)

SameConnection(r1, r2) ==
    /\ Succeeded(r1, "add") /\ Succeeded(r2, "remove")
    /\ reqs[r1].userId = reqs[r2].userId
    /\ reqs[r1].otherUserId = reqs[r2].otherUserId

OthersKept(r, kept) ==
    \A u \in kept : reqs[r].after.users[u] = reqs[r].before.users[u]

\* C5 as stated: from connections of A without duplicates, add(A, B) then
\* remove(A, B) restore A.connections, for every B, and neither changes B's
\* connections.
C5_Original ==
    \A r1, r2 \in DOMAIN reqs :
        (SameConnection(r1, r2) /\ Sequential(r1, r2) /\ NoDuplicate(ConnBefore(r1))) =>
            /\ ConnAfter(r2) = ConnBefore(r1)
            /\ OthersKept(r1, {reqs[r1].otherUserId} \cap DOMAIN users)
            /\ OthersKept(r2, {reqs[r1].otherUserId} \cap DOMAIN users)

\* C5 amended: from connections of A without duplicates in which B does not
\* occur, add(A, B) then remove(A, B) restore A.connections, and neither
\* changes the connections of a user other than A.
C5_AddThenRemove ==
    \A r1, r2 \in DOMAIN reqs :
        (/\ SameConnection(r1, r2) /\ Sequential(r1, r2)
         /\ NoDuplicate(ConnBefore(r1))
         /\ Count(ConnBefore(r1), reqs[r1].otherUserId) = 0) =>
            /\ ConnAfter(r2) = ConnBefore(r1)
            /\ OthersKept(r1, DOMAIN users \ {reqs[r1].userId})
            /\ OthersKept(r2, DOMAIN users \ {reqs[r1].userId})

\* An add and its remove in a row, on connections that held two other ids.
C5_Witness ==
    \E r1, r2 \in DOMAIN reqs :
        /\ SameConnection(r1, r2) /\ Sequential(r1, r2)
        /\ NoDuplicate(ConnBefore(r1))
        /\ Count(ConnBefore(r1), reqs[r1].otherUserId) = 0
        /\ Len(ConnBefore(r1)) = 2
        /\ Len(ConnAfter(r1)) = 3
        /\ users[reqs[r1].userId].connections = ConnBefore(r1)

\* C10 as stated, for its racing half: once likePost requests on a post
\* whose likes held no duplicate have raced and all ended, some id occurs
\* more than once in the likes.
Raced(r1, r2) ==
    /\ r1 # r2
    /\ SameLike(r1, r2)
    /\ ~reqs[r1].solo

C10_Original ==
    (/\ \A r \in DOMAIN reqs : reqs[r].pc = "done"
     /\ \E r1, r2 \in DOMAIN reqs : Raced(r1, r2)) =>
        \E p \in DOMAIN posts : ~NoDuplicate(posts[p].likes)

\* C10 amended: from likes that hold no id twice, no sequence and no
\* interleaving of likePost requests makes an id occur twice in a post's
\* likes (a race loses a toggle; it never duplicates an id).
C10_NoDuplicateLikes ==
    \A p \in DOMAIN posts : NoDuplicate(posts[p].likes)

\* Two likes of one post by one user raced: both found the post before
\* either wrote, both succeeded, and the user is in the likes once.
C10_Witness ==
    \E r1, r2 \in DOMAIN reqs :
        /\ Raced(r1, r2)
        /\ reqs[r1].doc = reqs[r2].doc
        /\ Count(reqs[r1].doc[1].likes, reqs[r1].userId) = 0
        /\ Count(posts[reqs[r1].postId].likes, reqs[r1].userId) = 1

\* The pieces joined by commas: the string a comma-split came from.
RECURSIVE Joined(_)
Joined(pieces) ==
    IF Len(pieces) = 1 THEN pieces[1]
    ELSE pieces[1] \o <<Comma>> \o Joined(Tail(pieces))

IsCommaSplitOf(pieces, s) ==
    /\ Len(pieces) >= 1
    /\ \A i \in DOMAIN pieces : Count(pieces[i], Comma) = 0
    /\ Joined(pieces) = s

\* C4: a successful editPost sets the post's textContent and imageContent to
\* the supplied values and its tags to the comma-split of the supplied
\* string, and leaves the post's likes and comments (and its author and
\* creation time), every other post and every user as they were.
C4_EditFrame ==
    \A r \in DOMAIN reqs :
        Succeeded(r, "edit") =>
            LET p == reqs[r].postId
                old == reqs[r].before
                new == reqs[r].after
            IN  /\ new.posts[p].textContent = reqs[r].body.textContent
                /\ new.posts[p].imageContent = reqs[r].body.imageContent
                /\ IsCommaSplitOf(new.posts[p].tags, reqs[r].body.tags)
                /\ new.posts[p].likes = old.posts[p].likes
                /\ new.posts[p].comments = old.posts[p].comments
                /\ new.posts[p].userId = old.posts[p].userId
                /\ new.posts[p].createdAt = old.posts[p].createdAt
                /\ DOMAIN new.posts = DOMAIN old.posts
                /\ \A q \in DOMAIN old.posts \ {p} : new.posts[q] = old.posts[q]
                /\ new.users = old.users

\* An edit to two tags of a post that had a like, and a comment written
\* after the edit had found the post.
C4_Witness ==
    \E r \in DOMAIN reqs :
        /\ Succeeded(r, "edit")
        /\ ~reqs[r].solo
        /\ reqs[r].doc[1].comments = <<>>
        /\ Len(reqs[r].before.posts[reqs[r].postId].comments) = 1
        /\ Len(reqs[r].before.posts[reqs[r].postId].likes) = 1
        /\ reqs[r].before.posts[reqs[r].postId].textContent = "t0"
        /\ posts[reqs[r].postId].tags = <<TagA, TagB>>
        /\ posts[reqs[r].postId].textContent = "t1"

\* C6: a likePost, commentPost or editPost whose postId resolves to no post
\* ends with status 404 and the message "Post not found", and leaves every
\* post and every user as they were.
C6_PostNotFound ==
    \A r \in DOMAIN reqs :
        (/\ reqs[r].op \in {"like", "comment", "edit"}
         /\ reqs[r].pc = "done"
         /\ reqs[r].postId \notin DOMAIN reqs[r].before.posts) =>
            /\ reqs[r].status = 404
            /\ reqs[r].message = "Post not found"
            /\ reqs[r].after = reqs[r].before

\* An edit of a post that does not exist has ended, after a like that
\* changed the store.
C6_Witness ==
    \E r, q \in DOMAIN reqs :
        /\ reqs[r].op = "edit"
        /\ reqs[r].pc = "done"
        /\ reqs[r].postId \notin DOMAIN posts
        /\ reqs[r].status = 404
        /\ Succeeded(q, "like")
        /\ posts = reqs[r].after.posts

\* C9: likePost, commentPost, addUserSocialConnections and
\* removeUserSocialConnections each write the whole field computed from the
\* document their find returned, whatever the store holds when they write:
\* a write another request made in between is overwritten (last write wins).
C9_WritesFromSnapshot ==
    \A r \in DOMAIN reqs :
        /\ Succeeded(r, "comment") =>
              reqs[r].after.posts[reqs[r].postId].comments =
                  reqs[r].doc[1].comments \o
                      <<[userId |-> reqs[r].userId, comment |-> reqs[r].body.comment]>>
        /\ Succeeded(r, "like") =>
              LikesAfter(r) =
                  IF Count(reqs[r].doc[1].likes, reqs[r].userId) > 0
                  THEN Without(reqs[r].doc[1].likes, reqs[r].userId)
                  ELSE reqs[r].doc[1].likes \o <<reqs[r].userId>>
        /\ Succeeded(r, "add") =>
              ConnAfter(r) = reqs[r].doc[1].connections \o <<reqs[r].otherUserId>>
        /\ Succeeded(r, "remove") =>
              ConnAfter(r) = Without(reqs[r].doc[1].connections, reqs[r].otherUserId)

\* Two comments on one post raced: both found the post without comments,
\* both succeeded, and the post holds one comment.
C9_Witness ==
    \E r1, r2 \in DOMAIN reqs :
        /\ r1 # r2
        /\ Succeeded(r1, "comment") /\ Succeeded(r2, "comment")
        /\ reqs[r1].postId = reqs[r2].postId
        /\ reqs[r1].userId # reqs[r2].userId
        /\ reqs[r1].doc[1].comments = <<>>
        /\ reqs[r2].doc[1].comments = <<>>
        /\ posts[reqs[r1].postId].comments = <<[userId |-> reqs[r2].userId, comment |-> "c"]>>

RespIs(kind) == resp # None /\ resp[1].kind = kind

\* The posts among ids that come before p in the order.
Ahead(ids, p, order) ==
    {q \in ids : IF order = "asc" THEN posts[q].createdAt < posts[p].createdAt
                                  ELSE posts[q].createdAt > posts[p].createdAt}

\* data is the page of size limit that follows the first skip posts of ids
\* in the order.
IsPage(data, ids, order, skip, limit) ==
    /\ Len(data) <= limit
    /\ \A i \in DOMAIN data :
          /\ data[i]._id \in ids
          /\ data[i].createdAt = posts[data[i]._id].createdAt
          /\ Cardinality(Ahead(ids, data[i]._id, order)) = skip + i - 1
    /\ Len(data) = Cardinality({p \in ids :
                       Cardinality(Ahead(ids, p, order)) \in skip..(skip + limit - 1)})

\* The feed response is what start and limit ask for.
FeedAnswers(start, limit) ==
    /\ IsPage(resp[1].data, DOMAIN posts, resp[1].query.order, start * limit, limit)
    /\ resp[1].total = Cardinality(DOMAIN posts)
    /\ resp[1].hasNextPage <=> (Cardinality(DOMAIN posts) > start * limit + limit)

\* C1: for start >= 0 and limit >= 1, getPosts returns the posts at positions
\* start*limit .. start*limit+limit-1 of the store sorted by createdAt in the
\* requested order (at most limit posts), total is the number of posts in the
\* store, and hasNextPage is true exactly when total > start*limit + limit.
C1_FeedPage ==
    (/\ RespIs("posts")
     /\ resp[1].query.start # None
     /\ resp[1].query.limit # None
     /\ resp[1].query.limit[1] >= 1) =>
        FeedAnswers(resp[1].query.start[1], resp[1].query.limit[1])

\* start=0, limit=2, order=desc on 5 posts: the 2 newest, total 5, a next page.
C1_Witness ==
    /\ RespIs("posts")
    /\ resp[1].query = [start |-> Some(0), limit |-> Some(2), order |-> "desc"]
    /\ Cardinality(DOMAIN posts) = 5
    /\ Len(resp[1].data) = 2
    /\ resp[1].data[1].createdAt = 5
    /\ resp[1].data[2].createdAt = 4
    /\ resp[1].data[1]._id # 5
    /\ resp[1].total = 5
    /\ resp[1].hasNextPage

\* C8: with start and/or limit absent or zero, getPosts answers as for
\* start = 0 and limit = 10 in their place: the page and hasNextPage are
\* computed with the same defaulted values.
C8_DefaultsThroughout ==
    (/\ RespIs("posts")
     /\ \/ resp[1].query.start \in {None, Some(0)}
        \/ resp[1].query.limit \in {None, Some(0)}) =>
        FeedAnswers(IF resp[1].query.start = None THEN 0 ELSE resp[1].query.start[1],
                    IF resp[1].query.limit \in {None, Some(0)} THEN DefaultLimit
                    ELSE resp[1].query.limit[1])

\* C7: getPostData returns the at most 10 most recent posts whose tags
\* contain the tag when one is given, and the at most 10 most recent posts
\* of the whole store when none is.
C7_Explore ==
    RespIs("explore") =>
        LET postTag == resp[1].query.postTag
            wanted == IF postTag.type = "string"
                      THEN {p \in DOMAIN posts : \E i \in DOMAIN posts[p].tags :
                                                    posts[p].tags[i] = postTag.s}
                      ELSE DOMAIN posts
        IN  IsPage(resp[1].data, wanted, "desc", 0, ExploreLimit)

====
